---------------------------- MODULE Spec2Model ----------------------------
(***************************************************************************)
(* QoLib (src/qolib.py): the Spinner, whose redraw loop runs on background *)
(* threads concurrently with its owner; the ProgressBar, which redraws     *)
(* synchronously inside update(); the colour engine, the message service,  *)
(* the table printer and the box of the art service.                       *)
(*                                                                         *)
(* SpinnerSpec / SpinnerFair / SpinnerTick : the spinner and its threads.  *)
(* BarSpec                   : the progress bar.                           *)
(* HexSpec                   : Color.hex_to_rgb / fg_hex / bg_hex.         *)
(* StripSpec                 : Color.strip_colors.                         *)
(* MessageSpec               : MessageService (class-level state).         *)
(* TableSpec                 : one TablePrinter and its caller.            *)
(* BoxSpec                   : ArtService.box.                             *)
(* FillSpec                  : the progress bar, stepped one by one.       *)
(* GradientSpec              : Color.gradient.                             *)
(* ChartSpec                 : GraphPrinter.bar_chart.                     *)
(*                                                                         *)
(* A Python str is a sequence of one-character strings; "ESC" stands for   *)
(* the character \033.                                                     *)
(***************************************************************************)
EXTENDS Integers, Sequences, FiniteSets, TLC

(***************************************************************************)
(* Bounds of the model.                                                    *)
(***************************************************************************)
\* redraw threads one spinner may launch (calls of start()/__enter__)
MaxThreads == 2
\* _current_frame is kept exactly up to this value; above it only its
\* remainder modulo len(frames), all the loop reads of it, is kept
MaxTicks == 2
\* largest total a progress bar is constructed with
MaxTotal == 3
\* update(increment=i) is called while current + i stays at or above -MaxDebt
MaxDebt == 2
\* messages a caller passes to Spinner(...) and update_message(...)
Msgs == {"up", "load"}
\* the frames list of the spinner (one-character glyphs, as DEFAULT_FRAMES)
Frames == <<"|", "/">>

Threads == 1..MaxThreads

Max(a, b) == IF a >= b THEN a ELSE b

VARIABLES
    \* ---- Spinner fields
    message,        \* self.message
    running,        \* self._running
    current_frame,  \* self._current_frame
    thread,         \* self._thread: id of the last thread started, 0 = no attribute
    \* ---- the redraw threads (closures spin) and the caller
    thr,            \* thr[t]: [pc, frame, text, loaded, stale] of redraw thread t
    mainPc,         \* where the caller is inside start()/stop()
    finalMsg,       \* stop()'s final_message argument while stop() runs
    scope,          \* "out" | "in" (inside a `with spinner:` block) |
                    \* "left" | "raised" (the block was left normally | by an error)
    \* ---- history of the terminal line; `observe` says which part is recorded
    observe,        \* "line": lastWrite, dirty, late are recorded |
                    \* "message": stale, lastFrame, epoch and how the scope was left |
                    \* "tick": ticks is recorded
    lastWrite,      \* "none" | "frame" | "clear" | "final": last write to stdout
    lastFrame,      \* the last frame written: [text, fresh]; fresh = its tick began
                    \* after the latest update_message() returned
    epoch,          \* 0 before the first update_message(); then 1, 2, 1, 2, ...,
                    \* changing at every update_message()
    dirty,          \* columns of the line that may hold a non-blank character
    late,           \* late[t]: frames t wrote since _running was last set False
    ticks,          \* frames written since start() last reset the frame index,
                    \* modulo len(frames)
    \* ---- ProgressBar fields
    built,          \* ProgressBar.__init__ has returned
    total,          \* self.total
    current,        \* self.current
    bar_length,     \* self.bar_length
    show_percentage,\* self.show_percentage
    show_counter,   \* self.show_counter
    \* ---- the caller of the progress bar and what its last call did
    barScope,       \* "out" | "in": whether a `with bar:` block is open
    lastCall,       \* the last method called on the bar
    lastErr,        \* the exception that call raised, "none" if it returned
    lastOut,        \* what that call wrote to stdout, in order
    steps,          \* update() calls in a row since current was 0; -1 = none
    \* ---- Color: the argument and the outcome of the last call
    hex_color,      \* argument of hex_to_rgb / fg_hex / bg_hex
    hexRet,         \* [fn, err, value] of the last of these calls
    stripArg,       \* [token, s]: a style token and a string
    stripRet,       \* strip_colors(token + s + RESET), or NotCalled
    gradArg,        \* [text, colors]: arguments of gradient
    gradRet,        \* the string gradient returned, or NotCalled
    \* ---- MessageService class attributes
    STYLES,         \* cls._STYLES
    custom_styles,  \* cls._custom_styles
    show_icons,     \* cls._show_icons
    show_timestamps,\* cls._show_timestamps
    timestamp_format, \* cls._timestamp_format
    msgCall,        \* the last call on the service: its arguments and outcome
    \* ---- TablePrinter fields
    headers,        \* self.headers
    rows,           \* self.rows
    column_align,   \* self.column_align
    padding,        \* self.padding
    border_style,   \* self.border_style
    zebra_stripes,  \* self.zebra_stripes
    tableOut,       \* what print() wrote since the rows last changed
    \* ---- ArtService.box
    boxArg,         \* [text, title, padding]
    boxRet,         \* the returned string as its lines, or NotCalled
    \* ---- GraphPrinter.bar_chart
    chartArg,       \* [data, max_height]: data is the dict as its items in order
    chartRet        \* the lines bar_chart printed, or NotCalled

spinnerVars == <<message, running, current_frame, thread, thr, mainPc, finalMsg,
                 scope, observe, lastWrite, lastFrame, epoch, dirty, late, ticks>>

barVars == <<built, total, current, bar_length, show_percentage, show_counter,
             barScope, lastCall, lastErr, lastOut, steps>>

colorVars == <<hex_color, hexRet, stripArg, stripRet, gradArg, gradRet>>

messageVars == <<STYLES, custom_styles, show_icons, show_timestamps,
                 timestamp_format, msgCall>>

tableVars == <<headers, rows, column_align, padding, border_style, zebra_stripes,
               tableOut>>

boxVars == <<boxArg, boxRet>>

chartVars == <<chartArg, chartRet>>

\* everything but the two animated widgets
libVars == <<colorVars, messageVars, tableVars, boxVars, chartVars>>

vars == <<spinnerVars, barVars, libVars>>

----------------------------------------------------------------------------
(***************************************************************************)
(* Spinner                                                                 *)
(***************************************************************************)
NoThread == [pc |-> "unborn", frame |-> "", text |-> "", loaded |-> 0, stale |-> FALSE]

Alive(t) == thr[t].pc \notin {"unborn", "done"}
AliveThreads == {t \in Threads : Alive(t)}

\* a history value is recorded only by the specification that observes it
Line(new, old) == IF observe = "line" THEN new ELSE old
Text(new, old) == IF observe = "message" THEN new ELSE old
Tick(new, old) == IF observe = "tick" THEN new ELSE old

\* Spinner.__init__(message, delay, frames); message is the caller's argument
SpinnerInit ==
    /\ running = FALSE
    /\ current_frame = 0
    /\ thread = 0
    /\ thr = [t \in Threads |-> NoThread]
    /\ mainPc = "idle"
    /\ finalMsg = ""
    /\ scope = "out"
    /\ lastWrite = "none"
    /\ lastFrame = [text |-> "", fresh |-> FALSE]
    /\ epoch = 0
    /\ dirty = 0
    /\ late = [t \in Threads |-> 0]
    /\ ticks = 0

\* start(), line 453: self._running = True
StartBegin ==
    /\ mainPc = "idle"
    /\ thread < MaxThreads
    /\ running' = TRUE
    /\ mainPc' = "start"
    /\ late' = [t \in Threads |-> 0]
    /\ UNCHANGED <<message, current_frame, thread, thr, finalMsg, observe, ticks,
                   lastWrite, lastFrame, epoch, dirty>>
    /\ UNCHANGED <<barVars, libVars>>

\* an explicit call of start()
Start ==
    /\ StartBegin
    /\ scope' = IF scope = "in" THEN "in" ELSE "out"

\* __enter__: self.start()
Enter ==
    /\ scope # "in"
    /\ StartBegin
    /\ scope' = "in"

\* start(), lines 454-466: reset the frame index, create and start the thread
StartSpawn ==
    /\ mainPc = "start"
    /\ current_frame' = 0
    /\ thread' = thread + 1
    /\ thr' = [thr EXCEPT ![thread + 1] = [NoThread EXCEPT !.pc = "check"]]
    /\ mainPc' = "idle"
    /\ ticks' = Tick(0, ticks)
    /\ UNCHANGED <<message, running, finalMsg, scope, observe,
                   lastWrite, lastFrame, epoch, dirty, late>>
    /\ UNCHANGED <<barVars, libVars>>

\* a stop() that leaves the flag as it is
StopFlagKept == running

\* stop(), line 470: what stop() stores in self._running
StopFlag == FALSE

\* stop(), lines 470-471
StopBegin(fm) ==
    /\ mainPc = "idle"
    /\ running' = StopFlag
    /\ finalMsg' = fm
    /\ mainPc' = IF thread # 0 THEN "join" ELSE "clear"
    /\ UNCHANGED <<message, current_frame, thread, thr, observe, ticks,
                   lastWrite, lastFrame, epoch, dirty, late>>
    /\ UNCHANGED <<barVars, libVars>>

\* an explicit call of stop(final_message)
Stop(fm) ==
    /\ StopBegin(fm)
    /\ UNCHANGED scope

\* __exit__(exc_type, exc_val, exc_tb): self.stop(); err = an error propagates
Exit(err) ==
    /\ scope = "in"
    /\ StopBegin("")
    /\ scope' = Text(IF err THEN "raised" ELSE "left", "out")

\* stop(), line 472: join returns because the thread has ended
JoinDone ==
    /\ mainPc = "join"
    /\ thr[thread].pc = "done"
    /\ mainPc' = "clear"
    /\ UNCHANGED <<message, running, current_frame, thread, thr, finalMsg, scope, observe, ticks,
                   lastWrite, lastFrame, epoch, dirty, late>>
    /\ UNCHANGED <<barVars, libVars>>

\* stop(), line 472: join(timeout=0.1) gives up on a thread that is still alive
JoinTimeout ==
    /\ mainPc = "join"
    /\ thr[thread].pc # "done"
    /\ mainPc' = "clear"
    /\ UNCHANGED <<message, running, current_frame, thread, thr, finalMsg, scope, observe, ticks,
                   lastWrite, lastFrame, epoch, dirty, late>>
    /\ UNCHANGED <<barVars, libVars>>

\* stop(), line 475: number of blanks written after the carriage return
ClearWidth == Len(message) + 2

\* stop(), line 475: "\r" + blanks + "\r"
ClearLine ==
    /\ mainPc = "clear"
    /\ lastWrite' = Line("clear", lastWrite)
    /\ dirty' = Line(IF ClearWidth >= dirty THEN 0 ELSE dirty, dirty)
    /\ mainPc' = "final"
    /\ UNCHANGED <<message, running, current_frame, thread, thr, finalMsg, scope,
                   observe, ticks, lastFrame, epoch, late>>
    /\ UNCHANGED <<barVars, libVars>>

\* stop(), lines 476-478: print(final_message) when it is not empty, flush
StopFinal ==
    /\ mainPc = "final"
    /\ IF finalMsg # ""
         THEN lastWrite' = Line("final", lastWrite) /\ dirty' = 0
         ELSE UNCHANGED <<lastWrite, dirty>>
    /\ finalMsg' = ""
    /\ mainPc' = "idle"
    /\ UNCHANGED <<message, running, current_frame, thread, thr, scope,
                   observe, ticks, lastFrame, epoch, late>>
    /\ UNCHANGED <<barVars, libVars>>

\* update_message(new_message); every tick in progress becomes stale
UpdateMessage(m) ==
    /\ mainPc = "idle"
    /\ message' = m
    /\ thr' = [t \in Threads |->
                 IF thr[t].pc \in {"frame", "format", "write"}
                   THEN [thr[t] EXCEPT !.stale = Text(TRUE, FALSE)]
                   ELSE thr[t]]
    /\ lastFrame' = [lastFrame EXCEPT !.fresh = FALSE]
    /\ epoch' = Text(IF epoch = 1 THEN 2 ELSE 1, 0)
    /\ UNCHANGED <<running, current_frame, thread, mainPc, finalMsg, scope,
                   observe, ticks, lastWrite, dirty, late>>
    /\ UNCHANGED <<barVars, libVars>>

\* ---- the redraw loop spin(), lines 456-462, one bytecode-level step at a time

\* a redraw loop that never looks at the flag
LoopAlways == TRUE

\* line 457: the loop condition
LoopCondition == running

\* line 457: while self._running
CheckRunning(t) ==
    /\ thr[t].pc = "check"
    /\ IF LoopCondition
         THEN /\ thr' = [thr EXCEPT ![t].pc = "frame", ![t].stale = FALSE]
              /\ UNCHANGED late
         ELSE /\ thr' = [thr EXCEPT ![t] = [NoThread EXCEPT !.pc = "done"]]
              /\ late' = [late EXCEPT ![t] = 0]
    /\ UNCHANGED <<message, running, current_frame, thread, mainPc, finalMsg, scope,
                   observe, ticks, lastWrite, lastFrame, epoch, dirty>>
    /\ UNCHANGED <<barVars, libVars>>

\* line 458: frame = self.frames[self._current_frame % len(self.frames)]
ReadFrame(t) ==
    /\ thr[t].pc = "frame"
    /\ thr' = [thr EXCEPT ![t].frame = Frames[(current_frame % Len(Frames)) + 1],
                          ![t].pc = "format"]
    /\ UNCHANGED <<message, running, current_frame, thread, mainPc, finalMsg, scope, observe, ticks,
                   lastWrite, lastFrame, epoch, dirty, late>>
    /\ UNCHANGED <<barVars, libVars>>

\* a redraw loop that formats the message once and reuses the text
ReadMessageCached == IF lastFrame.text # "" THEN lastFrame.text ELSE message

\* line 459: the message the f-string reads
ReadMessage == message

\* line 459: f"\r{frame} {self.message}" is evaluated
Format(t) ==
    /\ thr[t].pc = "format"
    /\ thr' = [thr EXCEPT ![t].text = ReadMessage, ![t].pc = "write"]
    /\ UNCHANGED <<message, running, current_frame, thread, mainPc, finalMsg, scope, observe, ticks,
                   lastWrite, lastFrame, epoch, dirty, late>>
    /\ UNCHANGED <<barVars, libVars>>

\* columns a frame occupies: glyph, space, message
FrameWidth(frame, text) == Len(frame) + 1 + Len(text)

\* lines 459-460: sys.stdout.write(...); sys.stdout.flush()
Write(t) ==
    /\ thr[t].pc = "write"
    /\ lastWrite' = Line("frame", lastWrite)
    /\ lastFrame' = Text([text |-> thr[t].text, fresh |-> ~thr[t].stale], lastFrame)
    /\ dirty' = Line(Max(dirty, FrameWidth(thr[t].frame, thr[t].text)), dirty)
    /\ late' = [late EXCEPT ![t] = Line(IF running THEN @ ELSE @ + 1, @)]
    /\ ticks' = Tick((ticks + 1) % Len(Frames), ticks)
    /\ thr' = [thr EXCEPT ![t] = [NoThread EXCEPT !.pc = "load"]]
    /\ UNCHANGED <<message, running, current_frame, thread, mainPc, finalMsg, scope,
                   observe, epoch>>
    /\ UNCHANGED <<barVars, libVars>>

\* line 461, first half of +=: read self._current_frame
Load(t) ==
    /\ thr[t].pc = "load"
    /\ thr' = [thr EXCEPT ![t].loaded = current_frame, ![t].pc = "store"]
    /\ UNCHANGED <<message, running, current_frame, thread, mainPc, finalMsg, scope, observe, ticks,
                   lastWrite, lastFrame, epoch, dirty, late>>
    /\ UNCHANGED <<barVars, libVars>>

\* the frame index n as the model keeps it: above MaxTicks, one period of the
\* frames lower (n % len(self.frames) is unchanged)
Folded(n) == IF n > MaxTicks THEN n - Len(Frames) ELSE n

\* line 461, second half of +=: store the sum; line 462: time.sleep(self.delay)
Store(t) ==
    /\ thr[t].pc = "store"
    /\ current_frame' = Folded(thr[t].loaded + 1)
    /\ thr' = [thr EXCEPT ![t] = [NoThread EXCEPT !.pc = "check"]]
    /\ UNCHANGED <<message, running, thread, mainPc, finalMsg, scope, observe, ticks,
                   lastWrite, lastFrame, epoch, dirty, late>>
    /\ UNCHANGED <<barVars, libVars>>

ThreadStep(t) ==
    \/ CheckRunning(t)
    \/ ReadFrame(t)
    \/ Format(t)
    \/ Write(t)
    \/ Load(t)
    \/ Store(t)

\* every step but the call of start()
SpinnerRest ==
    \/ StartSpawn
    \/ \E fm \in {"", "ok"} : Stop(fm)
    \/ \E err \in BOOLEAN : Exit(err)
    \/ JoinDone
    \/ JoinTimeout
    \/ ClearLine
    \/ StopFinal
    \/ \E m \in Msgs : UpdateMessage(m)
    \/ \E t \in Threads : ThreadStep(t)

SpinnerNext ==
    \/ Start
    \/ Enter
    \/ SpinnerRest

----------------------------------------------------------------------------
(***************************************************************************)
(* ProgressBar                                                             *)
(***************************************************************************)
Min(a, b) == IF a <= b THEN a ELSE b

\* n / d rounded to the nearest integer, ties to even (d # 0), as "%.1f" rounds
RoundHalfEven(n, d) ==
    LET nn == IF d < 0 THEN -n ELSE n
        dd == IF d < 0 THEN -d ELSE d
        q  == nn \div dd
        r  == nn - q * dd
    IN  IF 2 * r > dd THEN q + 1
        ELSE IF 2 * r < dd THEN q
        ELSE IF q % 2 = 0 THEN q ELSE q + 1

\* Python's float is the IEEE 754 double.  A positive double is the record
\* [m, e]: its value is m * 2^e with 2^52 <= m < 2^53, and m is written as
\* four limbs in base 2^15, the least significant first (the integers of the
\* model have 32 bits, a significand has 53).  Carry moves what a limb holds
\* beyond 15 bits, or a borrow, into the limb above it.
Carry(l) ==
    LET a == l[1]
        b == l[2] + a \div 32768
        c == l[3] + b \div 32768
        d == l[4] + c \div 32768
    IN  <<a % 32768, b % 32768, c % 32768, d>>

\* float(n): the double that holds the int n >= 1 exactly
Float(n) ==
    LET k == CHOOSE w \in 0..29 : 2^w <= n /\ n < 2^(w + 1)
        s == 52 - k
    IN  [m |-> Carry([i \in 1..4 |-> IF i = s \div 15 + 1 THEN n * 2^(s % 15) ELSE 0]),
         e |-> -s]

\* round to nearest, ties to even: the double nearest to l * 2^e, where the
\* limbs l hold at least 2^52 and `inexact' says that a nonzero part below
\* the last bit of l was already cut off
Rounded(l, e, inexact) ==
    LET d == (CHOOSE w \in 1..30 : 2^(w - 1) <= l[4] /\ l[4] < 2^w) - 8
        cut == l[1] % 2^d
        kept == [i \in 1..4 |-> IF i = 4 THEN l[i] \div 2^d
                                ELSE l[i] \div 2^d + (l[i + 1] % 2^d) * 2^(15 - d)]
        up == \/ 2 * cut > 2^d
              \/ 2 * cut = 2^d /\ (inexact \/ kept[1] % 2 = 1)
        m == IF up THEN Carry([kept EXCEPT ![1] = @ + 1]) ELSE kept
    IN  IF m[4] = 256 THEN [m |-> <<0, 0, 0, 128>>, e |-> e + d + 1]
        ELSE [m |-> m, e |-> e + d]

\* long division of r by b (r < 2 * b), one bit of the quotient q at a time,
\* until q has 55 bits: the quotient is q * 2^-n, and r is what is left
RECURSIVE Quotient(_, _, _, _)
Quotient(r, b, q, n) ==
    LET ge == \/ r[4] > b[4]
              \/ r[4] = b[4] /\ \/ r[3] > b[3]
                                \/ r[3] = b[3] /\ \/ r[2] > b[2]
                                                  \/ r[2] = b[2] /\ r[1] >= b[1]
        r1 == IF ge THEN Carry(<<r[1] - b[1], r[2] - b[2], r[3] - b[3], r[4] - b[4]>>)
              ELSE r
        q1 == Carry(<<2 * q[1] + (IF ge THEN 1 ELSE 0), 2 * q[2], 2 * q[3], 2 * q[4]>>)
    IN  IF q1[4] >= 512 THEN [q |-> q1, r |-> r1, n |-> n]
        ELSE Quotient(Carry(<<2 * r1[1], 2 * r1[2], 2 * r1[3], 2 * r1[4]>>), b, q1, n + 1)

\* x / y
FloatDiv(x, y) ==
    LET d == Quotient(x.m, y.m, <<0, 0, 0, 0>>, 0)
    IN  Rounded(d.q, x.e - y.e - d.n, d.r # <<0, 0, 0, 0>>)

\* n * x for an int n >= 1, which Python turns into a double first
IntTimes(n, x) == Rounded(Carry([i \in 1..4 |-> n * x.m[i]]), x.e, FALSE)

\* int(x), for x < 2^22
Truncate(x) ==
    IF x.e <= -53 THEN 0
    ELSE IF x.e <= -45 THEN x.m[4] \div 2^(-x.e - 45)
    ELSE (x.m[4] * 32768 + x.m[3]) \div 2^(-x.e - 30)

\* _render, lines 524-525: progress = self.current / self.total;
\* filled_length = int(self.bar_length * progress), len > 0 and tot # 0.
\* Rounding is symmetric, so a negative quotient is the negated positive one.
FilledLength(cur, tot, len) ==
    LET abs(v) == IF v < 0 THEN -v ELSE v
        filled == Truncate(IntTimes(len, FloatDiv(Float(abs(cur)), Float(abs(tot)))))
    IN  IF cur = 0 THEN 0
        ELSE IF (cur < 0) = (tot < 0) THEN filled ELSE -filled

\* _render, line 532: f"{progress * 100:.1f}%", in tenths of a percent; for a
\* total below 80 the double progress * 100 rounds as the exact quotient does
PercentTenths(cur, tot) == RoundHalfEven(1000 * cur, tot)

\* _render, lines 539-545: which time string is shown
TimeKind(cur, tot) ==
    IF cur > 0 /\ (IF tot > 0 THEN cur < tot ELSE cur > tot) THEN "eta"
    ELSE IF (IF tot > 0 THEN cur >= tot ELSE cur <= tot) THEN "elapsed"
    ELSE "none"

\* _render, lines 524-566: the line written after the carriage return (tot # 0);
\* a str repeated a negative number of times is empty
RenderLine(cur, tot) ==
    LET filled == FilledLength(cur, tot, bar_length)
    IN  [kind    |-> "frame",
         cur     |-> cur,
         fill    |-> Max(filled, 0),
         empty   |-> Max(bar_length - filled, 0),
         pct     |-> IF show_percentage THEN <<PercentTenths(cur, tot)>> ELSE <<>>,
         counter |-> IF show_counter THEN <<cur, tot>> ELSE <<>>,
         time    |-> TimeKind(cur, tot)]

\* print(): the newline that ends the line
Newline == [kind |-> "newline"]

\* the state before ProgressBar(...) is called
BarInit ==
    /\ built = FALSE
    /\ total = 0
    /\ current = 0
    /\ bar_length = 0
    /\ show_percentage = FALSE
    /\ show_counter = FALSE
    /\ barScope = "out"
    /\ lastCall = "none"
    /\ lastErr = "none"
    /\ lastOut = <<>>
    /\ steps = -1

\* ProgressBar.__init__ (AnimationService.progress_bar): no argument is checked
Construct(tot, len, pct, cnt) ==
    /\ ~built
    /\ built' = TRUE
    /\ total' = tot
    /\ current' = 0
    /\ bar_length' = len
    /\ show_percentage' = pct
    /\ show_counter' = cnt
    /\ lastCall' = "init"
    /\ lastErr' = "none"
    /\ lastOut' = <<>>
    /\ steps' = 0
    /\ UNCHANGED barScope
    /\ UNCHANGED <<spinnerVars, libVars>>

\* update, line 516: self.current = min(value, self.total)
Assigned(value) == Min(value, total)

\* a clamp that stops one short of total
SteppedShort(increment) == Min(current + increment, total - 1)

\* update, line 518: self.current = min(self.current + increment, self.total)
Stepped(increment) == Min(current + increment, total)

\* update, lines 515-520, then what the caller does after it: store the new
\* current, render (current / total raises ZeroDivisionError when total is 0),
\* and write `after` when update returned
UpdateTo(cur, after) ==
    /\ current' = cur
    /\ IF total = 0
         THEN /\ lastErr' = "ZeroDivisionError"
              /\ lastOut' = <<>>
         ELSE /\ lastErr' = "none"
              /\ lastOut' = <<RenderLine(cur, total)>> \o after
    /\ UNCHANGED <<built, total, bar_length, show_percentage, show_counter>>
    /\ UNCHANGED <<spinnerVars, libVars>>

\* update(value=v)
Update(v) ==
    /\ built
    /\ UpdateTo(Assigned(v), <<>>)
    /\ lastCall' = "update"
    /\ steps' = IF Assigned(v) = 0 THEN 0 ELSE -1
    /\ UNCHANGED barScope

\* update(increment=i); update() is update(increment=1)
UpdateBy(i) ==
    /\ built
    /\ current + i >= -MaxDebt
    /\ UpdateTo(Stepped(i), <<>>)
    /\ lastCall' = "update"
    /\ steps' = IF i = 1 /\ steps >= 0 THEN Min(steps + 1, MaxTotal + 1)
                ELSE IF Stepped(i) = 0 THEN 0 ELSE -1
    /\ UNCHANGED barScope

\* finish(): self.update(self.total); print()
Finish ==
    /\ built
    /\ UpdateTo(Assigned(total), <<Newline>>)
    /\ lastCall' = "finish"
    /\ steps' = IF Assigned(total) = 0 THEN 0 ELSE -1
    /\ UNCHANGED barScope

\* __enter__: self.update(0); the block is entered when it returns
BarEnter ==
    /\ built
    /\ barScope = "out"
    /\ UpdateTo(Assigned(0), <<>>)
    /\ lastCall' = "enter"
    /\ steps' = IF Assigned(0) = 0 THEN 0 ELSE -1
    /\ barScope' = IF total = 0 THEN "out" ELSE "in"

\* __exit__(exc_type, exc_val, exc_tb): self.finish(); err = an error propagates
BarExit(err) ==
    /\ built
    /\ barScope = "in"
    /\ UpdateTo(Assigned(total), <<Newline>>)
    /\ lastCall' = IF err THEN "exit_error" ELSE "exit"
    /\ steps' = IF Assigned(total) = 0 THEN 0 ELSE -1
    /\ barScope' = "out"

BarNext ==
    \/ \E tot \in (-1)..MaxTotal, len \in {2, 5}, pct \in BOOLEAN, cnt \in BOOLEAN :
          Construct(tot, len, pct, cnt)
    \/ \E v \in (-1)..(MaxTotal + 1) : Update(v)
    \/ \E i \in {-1, 1, 2} : UpdateBy(i)
    \/ Finish
    \/ BarEnter
    \/ \E err \in BOOLEAN : BarExit(err)

-----------------------------------------------------------------------------
(***************************************************************************)
(* Color / ANSIColor                                                       *)
(***************************************************************************)
\* longest argument of hex_to_rgb / fg_hex / bg_hex
MaxHexLen == 7
\* longest string s passed through strip_colors between a token and RESET
MaxStrLen == 4

\* the outcome of a call that has not been made
NotCalled == [err |-> "not called"]

\* Python str * int: n copies of the character c, none when n <= 0
RECURSIVE Repeat(_, _)
Repeat(c, n) == IF n <= 0 THEN <<>> ELSE <<c>> \o Repeat(c, n - 1)

\* all strings over the alphabet of length at most n
Strings(alphabet, n) == UNION {[1..k -> alphabet] : k \in 0..n}

\* the character \033
ESC == "ESC"

\* the escape sequence ESC [ params m
Token(params) == <<ESC, "[">> \o params \o <<"m">>

RESET == Token(<<"0">>)
BOLD == Token(<<"1">>)
DIM == Token(<<"2">>)
CYAN == Token(<<"3", "6">>)

\* f"{n}" of an int
RECURSIVE Dec(_)
Dec(n) ==
    IF n < 0 THEN <<"-">> \o Dec(-n)
    ELSE IF n < 10 THEN <<(<<"0", "1", "2", "3", "4", "5", "6", "7", "8", "9">>)[n + 1]>>
    ELSE Dec(n \div 10) \o Dec(n % 10)

fg_256(color_code) == Token(<<"3", "8", ";", "5", ";">> \o Dec(color_code))

fg_rgb(r, g, b) ==
    Token(<<"3", "8", ";", "2", ";">> \o Dec(r) \o <<";">> \o Dec(g) \o <<";">> \o Dec(b))

bg_rgb(r, g, b) ==
    Token(<<"4", "8", ";", "2", ";">> \o Dec(r) \o <<";">> \o Dec(g) \o <<";">> \o Dec(b))

\* ---- hex_to_rgb -----------------------------------------------------------
\* the hexadecimal digits among the characters of the arguments
HexDigit(c) == c \in {"0", "f"}

HexValue(c) == IF c = "f" THEN 15 ELSE 0

\* line 136: hex_color.lstrip('#') removes every leading '#'
RECURSIVE Lstrip(_)
Lstrip(s) == IF s # <<>> /\ Head(s) = "#" THEN Lstrip(Tail(s)) ELSE s

\* line 138: ''.join(c*2 for c in hex_color)
RECURSIVE Doubled(_)
Doubled(s) == IF s = <<>> THEN <<>> ELSE <<Head(s), Head(s)>> \o Doubled(Tail(s))

\* line 139: the slice hex_color[i:i+2], clipped to the string
Slice(s, i) == SubSeq(s, i + 1, Min(i + 2, Len(s)))

\* line 139: int(x, 16) of a slice of at most two characters: an optional
\* sign and then one or two hexadecimal digits give <<value>>; anything else
\* raises ValueError, written <<>>
IntHex(x) ==
    IF Len(x) = 1 /\ HexDigit(x[1]) THEN <<HexValue(x[1])>>
    ELSE IF Len(x) = 2 /\ HexDigit(x[1]) /\ HexDigit(x[2])
        THEN <<16 * HexValue(x[1]) + HexValue(x[2])>>
    ELSE IF Len(x) = 2 /\ x[1] = "+" /\ HexDigit(x[2]) THEN <<HexValue(x[2])>>
    ELSE <<>>

\* lines 136-139
hex_to_rgb(arg) ==
    LET stripped == Lstrip(arg)
        digits == IF Len(stripped) = 3 THEN Doubled(stripped) ELSE stripped
        parts == [k \in 1..3 |-> IntHex(Slice(digits, 2 * (k - 1)))]
    IN  IF \E k \in 1..3 : parts[k] = <<>>
        THEN [err |-> "ValueError"]
        ELSE [err |-> "none", value |-> [k \in 1..3 |-> parts[k][1]]]

\* lines 144-145
fg_hex(arg) ==
    LET rgb == hex_to_rgb(arg)
    IN  IF rgb.err # "none" THEN rgb
        ELSE [err |-> "none", value |-> fg_rgb(rgb.value[1], rgb.value[2], rgb.value[3])]

\* lines 150-151
bg_hex(arg) ==
    LET rgb == hex_to_rgb(arg)
    IN  IF rgb.err # "none" THEN rgb
        ELSE [err |-> "none", value |-> bg_rgb(rgb.value[1], rgb.value[2], rgb.value[3])]

HexToRgb ==
    /\ hexRet' = [fn |-> "hex_to_rgb"] @@ hex_to_rgb(hex_color)
    /\ UNCHANGED <<hex_color, stripArg, stripRet, gradArg, gradRet>>
    /\ UNCHANGED <<spinnerVars, barVars, messageVars, tableVars, boxVars, chartVars>>

FgHex ==
    /\ hexRet' = [fn |-> "fg_hex"] @@ fg_hex(hex_color)
    /\ UNCHANGED <<hex_color, stripArg, stripRet, gradArg, gradRet>>
    /\ UNCHANGED <<spinnerVars, barVars, messageVars, tableVars, boxVars, chartVars>>

BgHex ==
    /\ hexRet' = [fn |-> "bg_hex"] @@ bg_hex(hex_color)
    /\ UNCHANGED <<hex_color, stripArg, stripRet, gradArg, gradRet>>
    /\ UNCHANGED <<spinnerVars, barVars, messageVars, tableVars, boxVars, chartVars>>

\* ---- strip_colors ---------------------------------------------------------
\* the character class of the pattern (mutated: [0-9], without the semicolon)
ParamDigitsOnly(c) == c \in {"0", "1", "2", "3", "4", "5", "6", "7", "8", "9"}

\* the character class [0-9;] of the pattern
Param(c) == c \in {"0", "1", "2", "3", "4", "5", "6", "7", "8", "9", ";"}

\* the end of the longest run of [0-9;] that starts at position j of s
RECURSIVE ParamsEnd(_, _)
ParamsEnd(s, j) == IF j <= Len(s) /\ Param(s[j]) THEN ParamsEnd(s, j + 1) ELSE j

\* the position after the match of \033\[[0-9;]*m that starts at position i of
\* s; 0 when there is none
MatchEnd(s, i) ==
    IF i + 1 <= Len(s) /\ s[i] = ESC /\ s[i + 1] = "["
    THEN LET j == ParamsEnd(s, i + 2)
         IN  IF j <= Len(s) /\ s[j] = "m" THEN j + 1 ELSE 0
    ELSE 0

\* line 182: re.sub(r'\033\[[0-9;]*m', '', text), scanning from position i
RECURSIVE StripFrom(_, _)
StripFrom(s, i) ==
    IF i > Len(s) THEN <<>>
    ELSE IF MatchEnd(s, i) # 0 THEN StripFrom(s, MatchEnd(s, i))
    ELSE <<s[i]>> \o StripFrom(s, i + 1)

strip_colors(s) == StripFrom(s, 1)

StripColors ==
    /\ stripRet' = [err |-> "none",
                    value |-> strip_colors(stripArg.token \o stripArg.s \o RESET)]
    /\ UNCHANGED <<hex_color, hexRet, stripArg, gradArg, gradRet>>
    /\ UNCHANGED <<spinnerVars, barVars, messageVars, tableVars, boxVars, chartVars>>

\* ---- gradient ---------------------------------------------------------------
\* most characters of a text and most colours of a palette
MaxText == 18
MaxColors == 15

\* a step that gives every colour of the palette its share of the text
StepPerColor(length, n) == FloatDiv(Float(length), Float(n))

\* line 160: step = len(text) / (len(colors) - 1) if len(colors) > 1 else 1,
\* for a text of at least one character; n = len(colors)
Step(length, n) == IF n > 1 THEN FloatDiv(Float(length), Float(n - 1)) ELSE Float(1)

\* line 167: int(i / step), i the zero-based position of the character
ColorIdx(i, step) == IF i = 0 THEN 0 ELSE Truncate(FloatDiv(Float(i), step))

\* lines 162-175: the pieces of the characters from the one-based position k on
RECURSIVE Painted(_, _, _, _)
Painted(text, colors, step, k) ==
    IF k > Len(text) THEN <<>>
    ELSE (IF text[k] = " " THEN <<" ">>
          ELSE colors[Min(ColorIdx(k - 1, step), Len(colors) - 1) + 1] \o <<text[k]>>)
         \o Painted(text, colors, step, k + 1)

\* lines 154-177
gradient(text, colors) ==
    IF colors = <<>> THEN text
    ELSE Painted(text, colors, Step(Len(text), Len(colors)), 1) \o RESET

Gradient ==
    /\ gradRet' = [err |-> "none", value |-> gradient(gradArg.text, gradArg.colors)]
    /\ UNCHANGED <<hex_color, hexRet, stripArg, stripRet, gradArg>>
    /\ UNCHANGED <<spinnerVars, barVars, messageVars, tableVars, boxVars, chartVars>>

-----------------------------------------------------------------------------
(***************************************************************************)
(* MessageService                                                          *)
(***************************************************************************)
\* an optional argument: <<>> is None (omitted), <<v>> is the value v
Omitted == <<>>

\* MessageStyle(prefix, color, style="", icon=""): timestamp and indent keep
\* their defaults
MessageStyle(prefix, color, style, icon) ==
    [prefix |-> prefix, color |-> color, style |-> style, icon |-> icon,
     timestamp |-> FALSE, indent |-> 0]

\* the members of MessageType
MessageType == {"INFO", "INFO2", "PENDING", "SUCCESS", "SUCCESS2", "ERROR",
                "WARNING", "QUESTION", "DEBUG", "CUSTOM"}

\* the _STYLES table; the icons are one-character glyphs, written here by
\* ASCII stand-ins
BuiltinStyles ==
    [k \in MessageType \ {"CUSTOM"} |->
        CASE k = "INFO"     -> MessageStyle(<<"[", "+", "]">>, Token(<<"3", "7">>), <<>>, <<"i">>)
          [] k = "INFO2"    -> MessageStyle(<<"[", "#", "]">>, Token(<<"9", "4">>), <<>>, <<"j">>)
          [] k = "PENDING"  -> MessageStyle(<<"[", ".", ".", ".", "]">>, Token(<<"9", "0">>), <<>>, <<"p">>)
          [] k = "SUCCESS"  -> MessageStyle(<<"[", "v", "]">>, Token(<<"9", "2">>), BOLD, <<"s">>)
          [] k = "SUCCESS2" -> MessageStyle(<<"[", "v", "]">>, Token(<<"9", "4">>), <<>>, <<"s">>)
          [] k = "ERROR"    -> MessageStyle(<<"[", "-", "]">>, Token(<<"9", "1">>), BOLD, <<"x">>)
          [] k = "WARNING"  -> MessageStyle(<<"[", "!", "]">>, Token(<<"9", "3">>), BOLD, <<"w">>)
          [] k = "QUESTION" -> MessageStyle(<<"[", "?", "]">>, Token(<<"9", "5">>), <<>>, <<"q">>)
          [] k = "DEBUG"    -> MessageStyle(<<"[", "D", "E", "B", "U", "G", "]">>, Token(<<"9", "6">>), <<>>, <<"d">>)]

\* the class attributes as the module is loaded
MessageInit ==
    /\ STYLES = BuiltinStyles
    /\ custom_styles = [n \in {} |-> MessageStyle(<<>>, <<>>, <<>>, <<>>)]
    /\ show_icons = TRUE
    /\ show_timestamps = FALSE
    /\ timestamp_format = <<"%H", ":", "%M", ":", "%S">>
    /\ msgCall = [op |-> "none"]

\* lines 280-281 (mutated: an omitted show_icons falls back to the default)
ShowIconsDefault(arg) == IF arg # Omitted THEN arg[1] ELSE TRUE

\* lines 280-281
ShowIcons(arg) == IF arg # Omitted THEN arg[1] ELSE show_icons

\* lines 275-285
Configure(icons, timestamps, format) ==
    /\ show_icons' = ShowIcons(icons)
    /\ show_timestamps' = IF timestamps # Omitted THEN timestamps[1] ELSE show_timestamps
    /\ timestamp_format' = IF format # Omitted THEN format[1] ELSE timestamp_format
    /\ msgCall' = [op |-> "configure", show_icons |-> icons,
                   show_timestamps |-> timestamps, timestamp_format |-> format]
    /\ UNCHANGED <<STYLES, custom_styles>>
    /\ UNCHANGED <<spinnerVars, barVars, colorVars, tableVars, boxVars, chartVars>>

\* line 295 (mutated: a name that is already registered keeps its record)
RegisteredFirst(name, record) ==
    [n \in DOMAIN custom_styles \cup {name} |->
        IF n \in DOMAIN custom_styles THEN custom_styles[n] ELSE record]

\* line 295: cls._custom_styles[name] = MessageStyle(...)
Registered(name, record) ==
    [n \in DOMAIN custom_styles \cup {name} |->
        IF n = name THEN record ELSE custom_styles[n]]

\* lines 288-300
RegisterStyle(name, prefix, color, style, icon) ==
    /\ custom_styles' = Registered(name, MessageStyle(prefix, color, style, icon))
    /\ msgCall' = [op |-> "register_style", name |-> name,
                   record |-> MessageStyle(prefix, color, style, icon)]
    /\ UNCHANGED <<STYLES, show_icons, show_timestamps, timestamp_format>>
    /\ UNCHANGED <<spinnerVars, barVars, colorVars, tableVars, boxVars, chartVars>>

\* line 324: datetime.now().strftime(format) at the time now = [H, M, S]
RECURSIVE Strftime(_, _)
Strftime(format, now) ==
    IF format = <<>> THEN <<>>
    ELSE (CASE Head(format) = "%H" -> now.H
            [] Head(format) = "%M" -> now.M
            [] Head(format) = "%S" -> now.S
            [] OTHER -> <<Head(format)>>) \o Strftime(Tail(format), now)

\* line 332: " ".join(parts)
RECURSIVE Join(_)
Join(parts) ==
    IF parts = <<>> THEN <<>>
    ELSE IF Len(parts) = 1 THEN parts[1]
    ELSE parts[1] \o <<" ">> \o Join(Tail(parts))

\* lines 320-339: the text print() writes with the style, end included
Rendered(style, text, indent, now) ==
    LET stamp == IF show_timestamps
                 THEN <<DIM \o Strftime(timestamp_format, now) \o RESET>>
                 ELSE <<>>
        icon == IF show_icons /\ style.icon # <<>>
                THEN <<style.color \o style.style \o style.icon \o RESET>>
                ELSE <<>>
        prefix == Join(stamp \o icon
                       \o <<style.color \o style.style \o style.prefix \o RESET>>)
    IN  Repeat(" ", style.indent + indent) \o prefix \o <<" ">>
          \o style.color \o text \o RESET \o <<"NL">>

\* a message_type argument: a member of MessageType or a str
Member(name) == [enum |-> TRUE, name |-> name]
Named(name) == [enum |-> FALSE, name |-> name]

\* lines 312-315: dict.get; <<>> is None, <<style>> is the style found
Lookup(kind) ==
    IF kind.enum
    THEN IF kind.name \in DOMAIN STYLES THEN <<STYLES[kind.name]>> ELSE <<>>
    ELSE IF kind.name \in DOMAIN custom_styles THEN <<custom_styles[kind.name]>> ELSE <<>>

\* line 318 (mutated: the fallback is the ERROR style)
FallbackError == STYLES["ERROR"]

\* line 318
Fallback == STYLES["INFO"]

\* lines 312-318
Resolved(kind) == IF Lookup(kind) # <<>> THEN Lookup(kind)[1] ELSE Fallback

\* lines 303-339, and the quick methods 343-380 that call it
PrintMessage(kind, text, indent, now) ==
    /\ msgCall' = [op |-> "print", kind |-> kind, text |-> text, indent |-> indent,
                   now |-> now, err |-> "none",
                   out |-> Rendered(Resolved(kind), text, indent, now)]
    /\ UNCHANGED <<STYLES, custom_styles, show_icons, show_timestamps, timestamp_format>>
    /\ UNCHANGED <<spinnerVars, barVars, colorVars, tableVars, boxVars, chartVars>>

\* the names register_style() is called with
CustomNames == {"note", "error"}

\* an optional argument over the values
Optional(values) == {Omitted} \cup {<<v>> : v \in values}

\* the calls: a kind is a member of MessageType or one of three strings, the
\* last of which is never registered; the clock reads 09:05:59
MessageNext ==
    \/ \E icons \in Optional(BOOLEAN), timestamps \in Optional(BOOLEAN),
          \* the default _timestamp_format "%H:%M:%S" and another format
          format \in Optional({<<"%H", ":", "%M", ":", "%S">>, <<"%H", ":", "%M">>}) :
          Configure(icons, timestamps, format)
    \/ \E name \in CustomNames, prefix \in {<<"[", "*", "]">>, <<"[", "n", "]">>},
          style \in {<<>>, BOLD}, icon \in {<<>>, <<"*">>} :
          RegisterStyle(name, prefix, CYAN, style, icon)
    \/ \E kind \in {Member(k) : k \in MessageType}
                      \cup {Named(n) : n \in CustomNames \cup {"doesnotexist"}},
          indent \in {0, 2} :
          PrintMessage(kind, <<"h", "i">>, indent,
                       [H |-> <<"0", "9">>, M |-> <<"0", "5">>, S |-> <<"5", "9">>])

-----------------------------------------------------------------------------
(***************************************************************************)
(* TablePrinter                                                            *)
(***************************************************************************)
\* most columns of a table
MaxCols == 2
\* most rows added to a table
MaxRows == 2

\* the cell None
NoneCell == <<"None">>

\* str(x) of a header or a cell
Str(x) == IF x = NoneCell THEN <<"N", "o", "n", "e">> ELSE x

\* the defaults of header_color and stripe_color (lines 589, 591)
header_color == CYAN \o BOLD
stripe_color == DIM

\* _border_styles (lines 603-656); each glyph is one character, written here
\* by an ASCII stand-in, or the empty string
BorderStyles ==
    [name \in {"rounded", "double", "simple", "plain"} |->
        CASE name = "rounded" ->
               [top_left |-> <<"(">>, top_right |-> <<")">>, bottom_left |-> <<"(">>,
                bottom_right |-> <<")">>, horizontal |-> <<"-">>, vertical |-> <<"|">>,
                cross |-> <<"+">>, top_cross |-> <<"+">>, bottom_cross |-> <<"+">>,
                left_cross |-> <<"+">>, right_cross |-> <<"+">>]
          [] name = "double" ->
               [top_left |-> <<"#">>, top_right |-> <<"#">>, bottom_left |-> <<"#">>,
                bottom_right |-> <<"#">>, horizontal |-> <<"=">>, vertical |-> <<"H">>,
                cross |-> <<"#">>, top_cross |-> <<"#">>, bottom_cross |-> <<"#">>,
                left_cross |-> <<"#">>, right_cross |-> <<"#">>]
          [] name = "simple" ->
               [top_left |-> <<"+">>, top_right |-> <<"+">>, bottom_left |-> <<"+">>,
                bottom_right |-> <<"+">>, horizontal |-> <<"-">>, vertical |-> <<"|">>,
                cross |-> <<"+">>, top_cross |-> <<"+">>, bottom_cross |-> <<"+">>,
                left_cross |-> <<"+">>, right_cross |-> <<"+">>]
          [] name = "plain" ->
               [top_left |-> <<>>, top_right |-> <<>>, bottom_left |-> <<>>,
                bottom_right |-> <<>>, horizontal |-> <<>>, vertical |-> <<" ">>,
                cross |-> <<>>, top_cross |-> <<>>, bottom_cross |-> <<>>,
                left_cross |-> <<>>, right_cross |-> <<>>]]

\* lines 677-678
Border ==
    IF border_style \in DOMAIN BorderStyles THEN BorderStyles[border_style]
    ELSE BorderStyles["simple"]

\* the largest member of a non-empty set of integers
Maximum(S) == CHOOSE m \in S : \A n \in S : n <= m

\* lines 671-675: the width of column i (1-based here)
ColWidth(i) ==
    Maximum({Len(Str(headers[i]))}
            \cup {Len(Str(rows[r][i])) : r \in {q \in 1..Len(rows) : i <= Len(rows[q])}})
      + padding * 2

\* lines 669-675
ColWidths == [i \in 1..Len(headers) |-> ColWidth(i)]

\* the string s repeated n times (str * int)
RECURSIVE Times(_, _)
Times(s, n) == IF n <= 0 THEN <<>> ELSE s \o Times(s, n - 1)

\* lines 682-687, 718-723, 761-766: a rule from its end glyphs and its joint
RECURSIVE RuleFrom(_, _, _)
RuleFrom(i, horizontal, joint) ==
    IF i > Len(headers) THEN <<>>
    ELSE Times(horizontal, ColWidths[i])
           \o (IF i < Len(headers) THEN joint ELSE <<>>)
           \o RuleFrom(i + 1, horizontal, joint)

Rule(left, joint, right) == left \o RuleFrom(1, Border.horizontal, joint) \o right

\* str.ljust(width), str.rjust(width), str.center(width)
Ljust(s, width) == s \o Repeat(" ", width - Len(s))
Rjust(s, width) == Repeat(" ", width - Len(s)) \o s
Center(s, width) ==
    LET marg == width - Len(s)
        left == (marg \div 2) + (IF marg % 2 = 1 /\ width % 2 = 1 THEN 1 ELSE 0)
    IN  IF marg <= 0 THEN s
        ELSE Repeat(" ", left) \o s \o Repeat(" ", marg - left)

\* lines 700-705, 743-748
Aligned(s, width, align) ==
    IF align = "center" THEN Center(s, width)
    ELSE IF align = "right" THEN Rjust(s, width)
    ELSE Ljust(s, width)

\* lines 697-712, 739-755: one cell of column i with its padding and the
\* vertical glyph after it
CellPiece(i, s, color) ==
    Repeat(" ", padding)
      \o color \o Aligned(s, ColWidths[i] - padding * 2, column_align[i]) \o RESET
      \o Repeat(" ", padding) \o Border.vertical

RECURSIVE HeaderFrom(_)
HeaderFrom(i) ==
    IF i > Len(headers) THEN <<>>
    ELSE CellPiece(i, Str(headers[i]), header_color) \o HeaderFrom(i + 1)

\* lines 691-714
HeaderLine ==
    [kind |-> "header", cells |-> Len(headers), text |-> Border.vertical \o HeaderFrom(1)]

\* lines 734-736
RowColor(row_idx) == IF zebra_stripes /\ row_idx % 2 = 1 THEN stripe_color ELSE <<>>

\* line 741
CellStr(cell) == IF cell # NoneCell THEN Str(cell) ELSE <<>>

\* lines 738-755: the cells of a row from cell i on; the loop runs over the
\* cells of the row
RECURSIVE RowFrom(_, _, _)
RowFrom(row, i, color) ==
    IF i > Len(row) THEN <<>>
    ELSE CellPiece(i, CellStr(row[i]), color) \o RowFrom(row, i + 1, color)

\* line 739: col_widths[i] raises IndexError for a cell beyond the last column
RowRaises(row) == Len(row) > Len(headers)

\* lines 727-757: the line of the row with the zero-based index row_idx
RowLine(row_idx) ==
    [kind |-> "row", row_idx |-> row_idx, cells |-> Len(rows[row_idx + 1]),
     text |-> Border.vertical \o RowFrom(rows[row_idx + 1], 1, RowColor(row_idx))]

\* the rows print() writes before it returns or raises
RowsPrinted ==
    IF \E r \in 1..Len(rows) : RowRaises(rows[r])
    THEN (CHOOSE r \in 1..Len(rows) :
             RowRaises(rows[r]) /\ \A q \in 1..(r - 1) : ~RowRaises(rows[q])) - 1
    ELSE Len(rows)

\* lines 666-767
PrintedTable ==
    LET raised == RowsPrinted < Len(rows)
        top == IF Border.top_left # <<>>
               THEN <<[kind |-> "top", cells |-> 0,
                       text |-> Rule(Border.top_left, Border.top_cross, Border.top_right)]>>
               ELSE <<>>
        separator == IF Border.left_cross # <<>>
                     THEN <<[kind |-> "separator", cells |-> 0,
                             text |-> Rule(Border.left_cross, Border.cross, Border.right_cross)]>>
                     ELSE <<>>
        bottom == IF Border.bottom_left # <<>> /\ ~raised
                  THEN <<[kind |-> "bottom", cells |-> 0,
                          text |-> Rule(Border.bottom_left, Border.bottom_cross,
                                        Border.bottom_right)]>>
                  ELSE <<>>
    IN  [err |-> IF raised THEN "IndexError" ELSE "none",
         col_widths |-> ColWidths,
         lines |-> top \o <<HeaderLine>> \o separator
                     \o [k \in 1..RowsPrinted |-> RowLine(k - 1)] \o bottom]

\* lines 584-600: the table as its constructor leaves it
Constructed(heads, align, pad, style, zebra) ==
    /\ headers = heads
    /\ rows = <<>>
    /\ column_align = IF align # <<>> THEN align ELSE [i \in 1..Len(heads) |-> "left"]
    /\ padding = pad
    /\ border_style = style
    /\ zebra_stripes = zebra
    /\ tableOut = NotCalled

\* lines 658-660
AddRow(row) ==
    /\ Len(rows) < MaxRows
    /\ rows' = Append(rows, row)
    /\ tableOut' = NotCalled
    /\ UNCHANGED <<headers, column_align, padding, border_style, zebra_stripes>>
    /\ UNCHANGED <<spinnerVars, barVars, colorVars, messageVars, boxVars, chartVars>>

\* lines 662-664
AddRows(more) ==
    /\ Len(rows) + Len(more) <= MaxRows
    /\ rows' = rows \o more
    /\ tableOut' = NotCalled
    /\ UNCHANGED <<headers, column_align, padding, border_style, zebra_stripes>>
    /\ UNCHANGED <<spinnerVars, barVars, colorVars, messageVars, boxVars, chartVars>>

\* lines 666-767
PrintTable ==
    /\ tableOut' = PrintedTable
    /\ UNCHANGED <<headers, rows, column_align, padding, border_style, zebra_stripes>>
    /\ UNCHANGED <<spinnerVars, barVars, colorVars, messageVars, boxVars, chartVars>>

\* the arguments of the calls
ColumnHeader(i) == IF i % 2 = 1 THEN <<"I", "D">> ELSE <<"N", "a", "m", "e">>
\* rows one cell shorter than the headers, as long, and one cell longer
RowsFor(n) ==
    {[i \in 1..k |-> c] :
        k \in {n - 1, n, n + 1},
        \* an empty cell, a plain cell, a cell with style tokens around "ok", None
        c \in {<<>>, <<"a", "b", "c">>, BOLD \o <<"o", "k">> \o RESET, NoneCell}}

TableNext ==
    \/ \E row \in RowsFor(Len(headers)) : AddRow(row)
    \/ \E r1, r2 \in RowsFor(Len(headers)) : AddRows(<<r1, r2>>)
    \/ PrintTable

-----------------------------------------------------------------------------
(***************************************************************************)
(* ArtService.box                                                          *)
(***************************************************************************)
\* most lines of the text put in a box
MaxLines == 2

\* the defaults of border_color and title_color (lines 860-861)
border_color == CYAN
title_color == CYAN \o BOLD

\* line 865: the longest visible length of the lines
MaxLen(lines) == Maximum({Len(strip_colors(lines[k])) : k \in 1..Len(lines)})

\* lines 868-872; the box-drawing glyphs are written by ASCII stand-ins
TopBorder(lines, title, pad) ==
    IF title # <<>>
    THEN border_color \o <<"(", "-", " ">> \o title_color \o title
           \o border_color \o <<" ">>
           \o Repeat("-", MaxLen(lines) - Len(title) + pad * 2) \o <<")">>
    ELSE border_color \o <<"(">> \o Repeat("-", MaxLen(lines) + pad * 2 + 2) \o <<")">>

\* lines 877-880
ContentLine(lines, line, pad) ==
    border_color \o <<"|">> \o Repeat(" ", pad) \o line
      \o Repeat(" ", pad + (MaxLen(lines) - Len(strip_colors(line))))
      \o border_color \o <<"|">>

\* line 883
BottomBorder(lines, pad) ==
    border_color \o <<"(">> \o Repeat("-", MaxLen(lines) + pad * 2 + 2) \o <<")">>

\* lines 864-885: the lines of the returned string; text is given as the
\* result of text.split('\n'), and Color.RESET ends the last line
box(text, title, pad) ==
    <<TopBorder(text, title, pad)>>
      \o [k \in 1..Len(text) |-> ContentLine(text, text[k], pad)]
      \o <<BottomBorder(text, pad) \o RESET>>

Box ==
    /\ boxRet' = [err |-> "none", lines |-> box(boxArg.text, boxArg.title, boxArg.padding)]
    /\ UNCHANGED boxArg
    /\ UNCHANGED <<spinnerVars, barVars, colorVars, messageVars, tableVars, chartVars>>

-----------------------------------------------------------------------------
(***************************************************************************)
(* GraphPrinter.bar_chart                                                  *)
(***************************************************************************)
\* most bars of a chart and the largest value of one
MaxBars == 3
MaxValue == 11

\* lines 781-800: the lines printed, one for each item of the dict, with the
\* default show_values: the label, the glyphs of the bar (lines 789-794) and
\* the value
bar_chart(data, max_height) ==
    LET values == {data[k][2] : k \in 1..Len(data)}
        min_value == CHOOSE v \in values : \A w \in values : v <= w
        max_value == Maximum(values)
        normalized(value) ==
            IF max_value = min_value THEN max_height
            ELSE IF value = min_value THEN 0
            ELSE Truncate(IntTimes(max_height, FloatDiv(Float(value - min_value),
                                                        Float(max_value - min_value))))
    IN  [k \in 1..Len(data) |->
            [key |-> data[k][1], height |-> normalized(data[k][2]), value |-> data[k][2]]]

BarChart ==
    /\ chartRet' = [err |-> "none", lines |-> bar_chart(chartArg.data, chartArg.max_height)]
    /\ UNCHANGED chartArg
    /\ UNCHANGED <<spinnerVars, barVars, colorVars, messageVars, tableVars, boxVars>>

----------------------------------------------------------------------------
(***************************************************************************)
(* Specifications                                                          *)
(***************************************************************************)
\* the parts of the library that are not in `used' as they are when nothing
\* was called: no call of the colour engine, of box() or of bar_chart() made,
\* the message service as the module is loaded, the default table of one column
Idle(used) ==
    /\ "hex" \notin used => (hex_color = <<>> /\ hexRet = NotCalled)
    /\ "strip" \notin used => (stripArg = [token |-> RESET, s |-> <<>>] /\ stripRet = NotCalled)
    /\ "gradient" \notin used => (gradArg = [text |-> <<>>, colors |-> <<>>] /\ gradRet = NotCalled)
    /\ MessageInit
    /\ "table" \notin used => Constructed(<<ColumnHeader(1)>>, <<>>, 1, "rounded", FALSE)
    /\ "box" \notin used =>
          (boxArg = [text |-> <<<<>>>>, title |-> <<>>, padding |-> 1] /\ boxRet = NotCalled)
    /\ "chart" \notin used => (chartArg = [data |-> <<>>, max_height |-> 10] /\ chartRet = NotCalled)

\* a spinner and a progress bar that nobody uses
WidgetsIdle ==
    /\ message = "up"
    /\ SpinnerInit
    /\ observe = "line"
    /\ BarInit

\* The spinner, its caller and its redraw threads; the terminal line is observed.
SpinnerSpecInit ==
    /\ message \in Msgs
    /\ SpinnerInit
    /\ observe = "line"
    /\ BarInit
    /\ Idle({})

SpinnerSpec == SpinnerSpecInit /\ [][SpinnerNext]_vars

\* The same program with one start() fewer, the messages observed.
SpinnerFairNext ==
    \/ thread + 1 < MaxThreads /\ Start
    \/ thread + 1 < MaxThreads /\ Enter
    \/ SpinnerRest

\* Every redraw thread that can take a step eventually takes one (the OS
\* schedules a runnable thread; time.sleep returns).
SpinnerFairInit ==
    /\ message \in Msgs
    /\ SpinnerInit
    /\ observe = "message"
    /\ BarInit
    /\ Idle({})

\* The spinner of SpinnerSpec, the ticks observed.
SpinnerTickInit ==
    /\ message \in Msgs
    /\ SpinnerInit
    /\ observe = "tick"
    /\ BarInit
    /\ Idle({})

SpinnerTick == SpinnerTickInit /\ [][SpinnerNext]_vars

SpinnerFair ==
    /\ SpinnerFairInit
    /\ [][SpinnerFairNext]_vars
    /\ \A t \in Threads : WF_vars(ThreadStep(t))

\* One progress bar and its caller.
BarSpecInit ==
    /\ message = "up"
    /\ SpinnerInit
    /\ observe = "line"
    /\ BarInit
    /\ Idle({})

BarSpec == BarSpecInit /\ [][BarNext]_vars

\* One progress bar of the default length, stepped one update at a time and
\* finished.
MaxFill == 50

FillNext ==
    \/ \E tot \in 1..MaxFill : Construct(tot, 50, TRUE, TRUE)
    \/ UpdateBy(1)
    \/ Finish

FillSpec == BarSpecInit /\ [][FillNext]_vars

\* hex_to_rgb, fg_hex and bg_hex on every argument of at most MaxHexLen characters.
HexSpecInit ==
    /\ WidgetsIdle
    /\ hex_color \in Strings({"#", "0", "f", "+"}, MaxHexLen)
    /\ hexRet = NotCalled
    /\ Idle({"hex"})

HexSpec == HexSpecInit /\ [][HexToRgb \/ FgHex \/ BgHex]_vars

\* strip_colors on every style token and every string of at most MaxStrLen
\* characters.
StripSpecInit ==
    /\ WidgetsIdle
    /\ stripArg \in [token : {RESET, BOLD, CYAN, Token(<<"1", "0", "7">>), fg_256(208),
                              fg_rgb(255, 107, 107)},
                     s : Strings({ESC, "[", "1", ";", "m", "a"}, MaxStrLen)]
    /\ stripRet = NotCalled
    /\ Idle({"strip"})

StripSpec == StripSpecInit /\ [][StripColors]_vars

\* The message service and its callers.
MessageSpecInit == WidgetsIdle /\ Idle({})

MessageSpec == MessageSpecInit /\ [][MessageNext]_vars

\* One table, from its construction on: one to MaxCols columns, column_align
\* left out or the same alignment for every column.
TableSpecInit ==
    /\ WidgetsIdle
    /\ \E n \in 1..MaxCols, align \in {"", "center", "right"}, pad \in {0, 2},
          style \in DOMAIN BorderStyles, zebra \in BOOLEAN :
          Constructed([i \in 1..n |-> ColumnHeader(i)],
                      IF align = "" THEN <<>> ELSE [i \in 1..n |-> align],
                      pad, style, zebra)
    /\ Idle({"table"})

TableSpec == TableSpecInit /\ [][TableNext]_vars

\* box() on texts of at most MaxLines lines.
BoxSpecInit ==
    /\ WidgetsIdle
    /\ boxArg \in [text : UNION {[1..n -> {<<>>, <<"h", "i">>,
                                           BOLD \o <<"o", "k", "!">> \o RESET}] :
                                    n \in 1..MaxLines},
                   title : {<<>>, <<"T">>, <<"T", "i", "t", "l", "e">>},
                   padding : {0, 1, 2}]
    /\ boxRet = NotCalled
    /\ Idle({"box"})

BoxSpec == BoxSpecInit /\ [][Box]_vars

\* gradient() on texts of at most MaxText characters, the second one a space
\* or none, and palettes of at most MaxColors colours of the 256-colour table.
GradientSpecInit ==
    /\ WidgetsIdle
    /\ gradArg \in [text : {[i \in 1..k |-> IF i = j THEN " " ELSE "a"] :
                               k \in 0..MaxText, j \in {0, 2}},
                    colors : {[i \in 1..n |-> fg_256(i)] : n \in 0..MaxColors}]
    /\ gradRet = NotCalled
    /\ Idle({"gradient"})

GradientSpec == GradientSpecInit /\ [][Gradient]_vars

\* bar_chart() with the default max_height and with another one, on dicts of
\* at most MaxBars items with values from 0 to MaxValue.
ChartSpecInit ==
    /\ WidgetsIdle
    /\ chartArg \in [data : UNION {{[k \in 1..n |-> <<<<"b", "a", "c">>[k], f[k]>>] :
                                       f \in [1..n -> 0..MaxValue]} : n \in 0..MaxBars},
                     max_height : {10, 55}]
    /\ chartRet = NotCalled
    /\ Idle({"chart"})

ChartSpec == ChartSpecInit /\ [][BarChart]_vars

----------------------------------------------------------------------------
(***************************************************************************)
(* Properties                                                              *)
(***************************************************************************)
Stopped == mainPc = "idle" /\ ~running
LeftScope == scope \in {"left", "raised"}

\* C1 (as claimed): once stop() has returned and until the spinner is started
\* again, the last write to the line is never a frame.
C1_NoFrameAfterClear == Stopped => lastWrite # "frame"

\* C1 (amended): stop() waits for the redraw thread only as long as the join
\* timeout, so a tick that had passed the loop condition can still write after
\* the clear; but each redraw thread writes at most one frame after the flag was
\* set to false, until the spinner is started again.
C1_AtMostOneLateFrame == \A t \in Threads : late[t] <= 1

\* stop() has returned, and afterwards a redraw thread wrote its one late frame
C1_LateFrameWitness ==
    /\ Stopped
    /\ lastWrite = "frame"
    /\ \E t \in Threads : late[t] = 1

\* C2: at most one redraw thread of the spinner is alive at any time.
C2_AtMostOneTask == Cardinality(AliveThreads) <= 1

\* C3: leaving the scope, normally or by an error, sets the running flag to
\* false; and from then on, unless the spinner is started again, every redraw
\* thread eventually ends.
C3_ExitStopsLoop ==
    /\ [](LeftScope => ~running)
    /\ LeftScope ~> (AliveThreads = {} \/ ~LeftScope)

\* the scope was left by an error and the thread it had started has ended
C3_ExitWitness ==
    /\ scope = "raised"
    /\ thread >= 1
    /\ thr[thread].pc = "done"
    /\ AliveThreads = {}

C5_ClearCoversFrames == lastWrite = "clear" => dirty = 0

\* C6: no call on a progress bar lowers current.
C6_CurrentNeverDecreases == [][built => current' >= current]_vars

\* C7: 0 <= current <= total in every state of a progress bar (one whose total
\* is at least 1, as the data model requires).
C7_CurrentInRange == (built /\ total >= 1) => (0 <= current /\ current <= total)

\* C8: a progress bar with total < 1 is never constructed, so no render ever
\* divides by a total of zero.
C8_TotalValidated ==
    /\ built => total >= 1
    /\ lastErr # "ZeroDivisionError"

\* C9: for total >= 1, after exactly total calls of update() in a row starting
\* from current = 0, current = total and the frame shows 100.0%.
C9_FullAfterTotalSteps ==
    (built /\ total >= 1 /\ steps = total) =>
        /\ current = total
        /\ lastErr = "none"
        /\ Len(lastOut) = 1
        /\ lastOut[1].kind = "frame"
        /\ lastOut[1].cur = total
        /\ lastOut[1].pct = (IF show_percentage THEN <<1000>> ELSE <<>>)

\* a bar with total 3 after three calls of update(), showing its percentage
C9_StepsWitness ==
    /\ built
    /\ total = 3
    /\ steps = 3
    /\ current = 3
    /\ show_percentage
    /\ lastOut[1].pct = <<1000>>

\* C10: entering the scope of a progress bar renders the 0% frame; leaving it,
\* normally or by an error, forces current to total, renders exactly one more
\* frame and then writes a newline.
C10_ScopeRendersAndFinishes ==
    /\ lastCall = "enter" =>
          /\ lastErr = "none"
          /\ barScope = "in"
          /\ Len(lastOut) = 1
          /\ lastOut[1].kind = "frame"
          /\ lastOut[1].cur = 0
          /\ lastOut[1].fill = 0
          /\ lastOut[1].pct = (IF show_percentage THEN <<0>> ELSE <<>>)
    /\ lastCall \in {"exit", "exit_error"} =>
          /\ lastErr = "none"
          /\ current = total
          /\ Len(lastOut) = 2
          /\ lastOut[1].kind = "frame"
          /\ lastOut[1].cur = total
          /\ lastOut[2] = Newline

-----------------------------------------------------------------------------
(***************************************************************************)
(* The table printer                                                       *)
(***************************************************************************)
\* the visible length of a string: its length without the style tokens
Visible(s) == Len(strip_colors(s))

Printed == tableOut # NotCalled

\* the lines of the data rows that print() wrote, and the header line
RowLines == {tableOut.lines[k] : k \in {j \in 1..Len(tableOut.lines) : tableOut.lines[j].kind = "row"}}
HeaderOut == CHOOSE l \in {tableOut.lines[k] : k \in 1..Len(tableOut.lines)} : l.kind = "header"

\* C11: with a border style other than plain, every data row line that was
\* rendered has the visible length of the header line.
C11_RowsMatchHeader ==
    (Printed /\ border_style # "plain") =>
        \A l \in RowLines : Visible(l.text) = Visible(HeaderOut.text)

\* C12: a row with fewer cells than there are headers is rendered with one
\* padded cell and one trailing vertical glyph for every header column.
C12_ShortRowPadded ==
    Printed =>
        \A l \in RowLines :
            Len(rows[l.row_idx + 1]) < Len(headers) => l.cells = Len(headers)

\* C13: a row with more cells than there are headers renders without failure,
\* with exactly one cell for every header column.
C13_LongRowIgnored ==
    (Printed /\ \E r \in 1..Len(rows) : Len(rows[r]) > Len(headers)) =>
        /\ tableOut.err = "none"
        /\ \A l \in RowLines :
              Len(rows[l.row_idx + 1]) > Len(headers) => l.cells = Len(headers)

\* the width the columns are to have: the longest visible length of the header
\* and of the cells of the column, plus the padding on both sides
VisibleWidth(i) ==
    Maximum({Visible(Str(headers[i]))}
            \cup {Visible(Str(rows[r][i])) : r \in {q \in 1..Len(rows) : i <= Len(rows[q])}})
      + 2 * padding

RECURSIVE SumWidths(_)
SumWidths(i) ==
    IF i = 0 THEN 0 ELSE VisibleWidth(i) + Len(Border.vertical) + SumWidths(i - 1)

\* C14: every column is as wide as the longest visible length in it plus twice
\* the padding, and every cell fills that width in visible characters, whether
\* it carries style tokens or not.
C14_VisibleColumnWidths ==
    Printed =>
        /\ \A i \in 1..Len(headers) : tableOut.col_widths[i] = VisibleWidth(i)
        /\ \A l \in RowLines :
              l.cells = Len(headers) =>
                 Visible(l.text) = Len(Border.vertical) + SumWidths(Len(headers))

-----------------------------------------------------------------------------
(***************************************************************************)
(* The message service                                                     *)
(***************************************************************************)
\* a kind that is neither a built-in kind with a style nor a registered name
Unresolved(kind) ==
    IF kind.enum THEN kind.name \notin DOMAIN BuiltinStyles
    ELSE kind.name \notin DOMAIN custom_styles

\* C15: print() of an unresolved kind does not fail and renders the message
\* with the INFO style, whose prefix is "[+]".
C15_UnresolvedKindUsesInfo ==
    (msgCall.op = "print" /\ Unresolved(msgCall.kind)) =>
        /\ msgCall.err = "none"
        /\ BuiltinStyles["INFO"].prefix = <<"[", "+", "]">>
        /\ msgCall.out = Rendered(BuiltinStyles["INFO"], msgCall.text,
                                  msgCall.indent, msgCall.now)

\* an unregistered name was printed while other names were registered
C15_UnresolvedWitness ==
    /\ msgCall.op = "print"
    /\ msgCall.kind = Named("doesnotexist")
    /\ DOMAIN custom_styles = CustomNames
    /\ show_timestamps

\* C16: a name maps to the record of its most recent registration; no name
\* leaves the registry, a record changes only by a registration under its
\* name, and the built-in table never changes.
C16_LastRegistrationWins ==
    /\ [](msgCall.op = "register_style" =>
            /\ msgCall.name \in DOMAIN custom_styles
            /\ custom_styles[msgCall.name] = msgCall.record)
    /\ [](STYLES = BuiltinStyles)
    /\ [][/\ DOMAIN custom_styles \subseteq DOMAIN custom_styles'
          /\ \A n \in DOMAIN custom_styles :
                custom_styles'[n] # custom_styles[n] =>
                   (msgCall'.op = "register_style" /\ msgCall'.name = n)]_vars

\* both names are registered, the last call being a registration
C16_RegisteredWitness ==
    /\ msgCall.op = "register_style"
    /\ DOMAIN custom_styles = CustomNames
    /\ custom_styles["note"] # custom_styles["error"]

\* C17: configure() sets the fields it is given and leaves the omitted ones,
\* and the registry, as they were.
C17_ConfigureKeepsOmitted ==
    [][msgCall'.op = "configure" =>
        /\ show_icons' = IF msgCall'.show_icons = Omitted THEN show_icons
                          ELSE msgCall'.show_icons[1]
        /\ show_timestamps' = IF msgCall'.show_timestamps = Omitted THEN show_timestamps
                               ELSE msgCall'.show_timestamps[1]
        /\ timestamp_format' = IF msgCall'.timestamp_format = Omitted THEN timestamp_format
                                ELSE msgCall'.timestamp_format[1]
        /\ custom_styles' = custom_styles]_vars

\* configure() was called without show_icons while show_icons was not at its
\* default, and a style was registered
C17_OmittedWitness ==
    /\ msgCall.op = "configure"
    /\ msgCall.show_icons = Omitted
    /\ msgCall.show_timestamps # Omitted
    /\ ~show_icons
    /\ DOMAIN custom_styles # {}

-----------------------------------------------------------------------------
(***************************************************************************)
(* The colour engine and the box                                           *)
(***************************************************************************)
\* the argument is '#RGB' or '#RRGGBB', with or without the '#'
ValidHex(arg) ==
    LET digits == IF arg # <<>> /\ Head(arg) = "#" THEN Tail(arg) ELSE arg
    IN  /\ Len(digits) \in {3, 6}
        /\ \A k \in 1..Len(digits) : HexDigit(digits[k])

\* C18: hex_to_rgb, fg_hex and bg_hex fail, at the call, on every argument that
\* is not 3 or 6 hexadecimal digits after its leading '#'.
C18_InvalidHexFails ==
    (hexRet # NotCalled /\ ~ValidHex(hex_color)) => hexRet.err # "none"

\* C19 as stated: strip_colors(t + s + RESET) = s for every string s.
C19_StripGivesBack ==
    stripRet # NotCalled => stripRet.value = stripArg.s

\* the string holds no escape sequence ESC [ params m
NoToken(s) == \A i \in 1..Len(s) : MatchEnd(s, i) = 0

\* C19: strip_colors(t + s + RESET) is s for every string s that holds no
\* style escape sequence, and strip_colors(s) for every string s.
C19_StripGivesBackPlain ==
    stripRet # NotCalled =>
        /\ NoToken(stripArg.s) => stripRet.value = stripArg.s
        /\ stripRet.value = strip_colors(stripArg.s)

\* a string with the beginning of an escape sequence but no whole one, between
\* an RGB token and RESET
C19_PlainWitness ==
    /\ stripRet # NotCalled
    /\ stripArg.token = fg_rgb(255, 107, 107)
    /\ Len(stripArg.s) = MaxStrLen
    /\ stripArg.s[MaxStrLen - 1] = ESC
    /\ stripArg.s[MaxStrLen] = "["
    /\ NoToken(stripArg.s)
    /\ stripRet.value = stripArg.s

\* C20: the top border, the content lines and the bottom border of a box have
\* the same visible width.
C20_BoxLinesAligned ==
    boxRet # NotCalled =>
        \A k \in 1..Len(boxRet.lines) :
            Visible(boxRet.lines[k]) = Visible(boxRet.lines[1])

-----------------------------------------------------------------------------
(***************************************************************************)
(* Ticks, fill glyphs, line counts, gradients and bar charts               *)
(***************************************************************************)
\* what a step of the spinner does to the frame index and the terminal when it
\* is the write of a tick, the increment after it, or the reset in start()
TickStep(t) ==
    /\ (running /\ thr[t].pc = "write" /\ thr'[t].pc = "load") =>
          thr[t].frame = Frames[ticks + 1]
    /\ (thr[t].pc = "format" /\ thr'[t].pc = "write") => thr'[t].text = message
    /\ (thr[t].pc = "store" /\ thr'[t].pc = "check") =>
          current_frame' = Folded(current_frame + 1)
    /\ (mainPc = "start" /\ mainPc' = "idle") => current_frame' = 0

\* C21: while the spinner runs, the k-th tick after start() writes
\* frames[k mod len(frames)] and the current message and then increments the
\* frame index by exactly one; start() resets the frame index to 0.
C21_TickWritesFrame == [][\A t \in Threads : TickStep(t)]_vars

\* C22: every render with 0 <= current <= total shows bar_length glyphs, of
\* which floor(bar_length * current / total) are fill glyphs; over single-step
\* updates the number of fill glyphs never goes down, and it is bar_length
\* once current = total.
C22_FillIsFloor ==
    [][(lastOut' # <<>> /\ 0 <= current' /\ current' <= total') =>
          /\ lastOut'[1].fill + lastOut'[1].empty = bar_length'
          /\ lastOut'[1].fill = (bar_length' * current') \div total'
          /\ (lastOut # <<>> => lastOut'[1].fill >= lastOut[1].fill)
          /\ (current' = total' => lastOut'[1].fill = bar_length')]_vars

\* C23: print() of a table with n rows writes n + 4 lines with the simple,
\* rounded and double styles: the top rule, the header, the separator rule, the
\* n rows in insertion order and the bottom rule; with the plain style it
\* writes the header and the n rows, n + 1 lines.
C23_LinesOfTable ==
    Printed =>
        LET n == Len(rows)
            row == [k \in 1..n |-> "row"]
        IN  /\ [k \in 1..Len(tableOut.lines) |-> tableOut.lines[k].kind] =
                  IF border_style = "plain" THEN <<"header">> \o row
                  ELSE <<"top", "header", "separator">> \o row \o <<"bottom">>
            /\ Len(tableOut.lines) = IF border_style = "plain" THEN n + 1 ELSE n + 4
            /\ \A k \in 1..Len(tableOut.lines) :
                  tableOut.lines[k].kind = "row" =>
                     tableOut.lines[k].row_idx + 1 =
                        k - (IF border_style = "plain" THEN 1 ELSE 3)

\* the string the gradient is said to return: the characters of `text' from
\* the one-based position k on, a space as it is and any other character after
\* the colour at floor(i / step), step = len(text) / (len(colors) - 1), which
\* is floor(i * (len(colors) - 1) / len(text)); i = k - 1
RECURSIVE SpecifiedFrom(_, _, _)
SpecifiedFrom(text, colors, k) ==
    IF k > Len(text) THEN <<>>
    ELSE (IF text[k] = " " THEN <<" ">>
          ELSE colors[IF Len(colors) = 1 THEN 1
                      ELSE ((k - 1) * (Len(colors) - 1)) \div Len(text) + 1] \o <<text[k]>>)
         \o SpecifiedFrom(text, colors, k + 1)

\* C24: gradient(text, palette) returns the text unchanged, without a reset,
\* for an empty palette; otherwise every space unstyled, every other character
\* at position i after palette[floor(i / step)] with
\* step = len(text) / (len(palette) - 1) (after palette[0] for a palette of
\* one colour), and one reset at the end.
C24_GradientAsSpecified ==
    gradRet # NotCalled =>
        gradRet.value = IF gradArg.colors = <<>> THEN gradArg.text
                        ELSE SpecifiedFrom(gradArg.text, gradArg.colors, 1) \o RESET

\* C25: bar_chart prints one bar for each label, in the insertion order of the
\* dict; every bar has max_height glyphs when all values are equal, and
\* floor((value - min) / (max - min) * max_height) glyphs otherwise.
C25_BarsAsSpecified ==
    chartRet # NotCalled =>
        LET data == chartArg.data
            values == {data[k][2] : k \in 1..Len(data)}
            lo == CHOOSE v \in values : \A w \in values : v <= w
            hi == CHOOSE v \in values : \A w \in values : v >= w
        IN  /\ Len(chartRet.lines) = Len(data)
            /\ \A k \in 1..Len(data) :
                  /\ chartRet.lines[k].key = data[k][1]
                  /\ chartRet.lines[k].height =
                        IF lo = hi THEN chartArg.max_height
                        ELSE ((data[k][2] - lo) * chartArg.max_height) \div (hi - lo)

\* C26: for a palette of n >= 2 colours the index gradient computes for a
\* character is at most n - 2: the clamp to n - 1 is never needed, and the last
\* colour of the palette is put before no character.
C26_LastColourUnused ==
    (gradRet # NotCalled /\ Len(gradArg.colors) >= 2) =>
        LET text == gradArg.text
            colors == gradArg.colors
            last == colors[Len(colors)]
        IN  /\ \A k \in 1..Len(text) :
                  text[k] # " " =>
                     ColorIdx(k - 1, Step(Len(text), Len(colors))) <= Len(colors) - 2
            /\ \A p \in 1..Len(gradRet.value) :
                  p + Len(last) - 1 <= Len(gradRet.value) =>
                     SubSeq(gradRet.value, p, p + Len(last) - 1) # last

\* gradient was called with a palette as long as RAINBOW and a text with more
\* characters than colours, and the last character got the last colour but one
C26_LastButOneWitness ==
    /\ gradRet # NotCalled
    /\ Len(gradArg.colors) = 6
    /\ Len(gradArg.text) = MaxText
    /\ ColorIdx(Len(gradArg.text) - 1, Step(Len(gradArg.text), 6)) = 4

=============================================================================
